---- MODULE Spec2Model ----
(***************************************************************************)
(* Model of stress4844: the calldata packing planner (construct_bundle),   *)
(* the bundle landing loop (submit_bundles) and the mempool fan-out path   *)
(* (submit_txns).                                                          *)
(*                                                                         *)
(* usize values.  TLC's integers are 32 bits wide, so a 64-bit usize u is  *)
(* held as the integer that has the same 64 bits read as two's complement: *)
(* u itself when u < 2^63, and u - 2^64 otherwise.  On this representation *)
(* a wrapping subtraction is the plain integer subtraction, and a negative *)
(* number always stands for a wrapped-around value of at least 2^63.  All  *)
(* values the program computes without wrapping stay below 2^31.           *)
(***************************************************************************)
EXTENDS Integers, Sequences, FiniteSets, TLC

(* ----------------------------- bounds ---------------------------------- *)

\* number of block notifications the stream can deliver in one run
MaxBlocks == 4
\* largest --blocks budget drawn
MaxBudget == 2
\* largest --mempool-txs drawn, and the cap on the signing loop
MaxMempoolTxs == 5
\* a signing fault is injected at one of the first MaxFaultPos entries of a
\* plan, or at its remainder entry
MaxFaultPos == 2
\* chain head when the run starts
StartBlock == 100

\* --fill-pct values drawn (clap admits 1..=100)
FillPcts == {1, 100}
\* --chunk-size values drawn (kilobytes)
ChunkSizes == {0, 7, 128}
\* account nonces the chain reports at start-up
StartNonces == {0, 5}

(* ----------------------- bundle_builder.rs ----------------------------- *)

KB == 1024

TRIM_BYTES == 300

NoValue == "none"

\* a usize that is the result of a wrap-around (at least 2^63)
Wrapped(u) == u < 0

\* a - b on usize overflows
SubOverflows(a, b) == ~Wrapped(a) /\ (Wrapped(b) \/ a < b)

\* a.wrapping_sub(b): what a - b yields when overflow checks are off
WrappingSub(a, b) == a - b

\* a / b on usize, for a not wrapped and b # 0
UDiv(a, b) == IF Wrapped(b) THEN 0 ELSE a \div b

\* let chunk = chunk_size * KB - TRIM_BYTES;
ChunkBytes(chunk_size) == WrappingSub(chunk_size * KB, TRIM_BYTES)

ChunkOverflows(chunk_size) == SubOverflows(chunk_size * KB, TRIM_BYTES)

\* let total_data_size: usize = fill_pct as usize * 2 * 1024 * KB / 100;
TotalDataSize(fill_pct) == (fill_pct * 2 * 1024 * KB) \div 100

\* mutant of TxsPerBlock: divides by the chunk size before the overhead is
\* shaved off
TxsPerBlock_Unshaved(total_data_size, chunk) ==
    UDiv(total_data_size, IF Wrapped(chunk) THEN chunk ELSE chunk + TRIM_BYTES)

\* let txs_per_block = total_data_size / chunk;
TxsPerBlock(total_data_size, chunk) == UDiv(total_data_size, chunk)

\* current_data_used after the loop: TRIM_BYTES, plus chunk per iteration
CurrentDataUsed(txs_per_block, chunk) == TRIM_BYTES + txs_per_block * chunk

\* let remaining_data = total_data_size - current_data_used - TRIM_BYTES;
RemainingData(total_data_size, current_data_used) ==
    WrappingSub(WrappingSub(total_data_size, current_data_used), TRIM_BYTES)

RemainingOverflows(total_data_size, current_data_used) ==
    \/ SubOverflows(total_data_size, current_data_used)
    \/ SubOverflows(WrappingSub(total_data_size, current_data_used), TRIM_BYTES)

\* mutant of EntryNonce: the `nonce += 1` of the loop is lost
EntryNonce_NoIncrement(nonce, i) == nonce

\* nonce of the transaction signed in loop iteration i (0-based): nonce += 1
\* after every push
EntryNonce(nonce, i) == nonce + i

\* generate_random_data(size): a Vec of exactly size bytes; collecting a
\* wrapped-around size exceeds the largest Vec capacity and panics
GenerateRandomData(size) ==
    IF Wrapped(size) THEN [panic |-> TRUE, len |-> 0]
                     ELSE [panic |-> FALSE, len |-> size]

\* the transactions pushed by the first n loop iterations
ChunkTxs(chunk, nonce, n) ==
    [i \in 1..n |-> [data_size |-> chunk, nonce |-> EntryNonce(nonce, i - 1)]]

\* positions of a plan (1..txs_per_block for the loop, txs_per_block + 1 for
\* the remainder) at which a fault of the chain client is injected
FaultPositions(txs_per_block) ==
    {k \in 1..(txs_per_block + 1) : k <= MaxFaultPos \/ k = txs_per_block + 1}

\* what the chain client does during one construct_bundle call
Faults(txs_per_block) ==
    {[kind |-> "none", at |-> 0], [kind |-> "gas_price", at |-> 0]}
    \cup [kind : {"estimate", "sign"}, at : FaultPositions(txs_per_block)]

\* construct_bundle.  checks: the build's overflow checks (debug profile) are
\* on.  The result holds the Result (status ok / err) or the panic, the line
\* the call got to (stage), the values computed up to there (0 before), the
\* data sizes requested of get_signed_tx and the transactions pushed.
ConstructBundle(fill_pct, nonce, chunk_size, checks, fault) ==
    LET chunk == ChunkBytes(chunk_size)
        total_data_size == TotalDataSize(fill_pct)
        txs_per_block == TxsPerBlock(total_data_size, chunk)
        current_data_used == CurrentDataUsed(txs_per_block, chunk)
        remaining_data == RemainingData(total_data_size, current_data_used)
        base == [status |-> "panic", error |-> "overflow", stage |-> "chunk",
                 chunk |-> 0, total_data_size |-> 0, txs_per_block |-> 0,
                 remaining_data |-> 0, input_nonce |-> nonce,
                 requested |-> << >>, txs |-> << >>]
        started == [base EXCEPT !.stage = "gas_price", !.chunk = chunk,
                                !.total_data_size = total_data_size,
                                !.txs_per_block = txs_per_block]
        signed(n) == [started EXCEPT !.stage = "loop",
                                     !.txs = ChunkTxs(chunk, nonce, n),
                                     !.requested = [i \in 1..n |-> chunk]]
        all == signed(txs_per_block)
        last == [all EXCEPT !.stage = "remainder",
                            !.remaining_data = remaining_data,
                            !.requested = Append(@, remaining_data)]
    IN  IF ChunkOverflows(chunk_size) /\ checks
        THEN base
        ELSE IF fault.kind = "gas_price"
        THEN [started EXCEPT !.status = "err", !.error = "gas_price"]
        ELSE IF fault.kind # "none" /\ fault.at <= txs_per_block
        THEN [signed(fault.at - 1) EXCEPT
                 !.status = "err", !.error = fault.kind,
                 !.requested = [i \in 1..fault.at |-> chunk]]
        ELSE IF RemainingOverflows(total_data_size, current_data_used) /\ checks
        THEN [all EXCEPT !.stage = "remaining_data"]
        ELSE IF GenerateRandomData(remaining_data).panic
        THEN [last EXCEPT !.error = "capacity"]
        ELSE IF fault.kind # "none"
        THEN [last EXCEPT !.status = "err", !.error = fault.kind]
        ELSE [last EXCEPT !.status = "ok", !.error = NoValue,
                          !.stage = "returned", !.txs =
                 Append(@, [data_size |-> GenerateRandomData(remaining_data).len,
                            nonce |-> EntryNonce(nonce, txs_per_block)])]

\* no construct_bundle call made yet
NoPlan ==
    [status |-> "none", error |-> NoValue, stage |-> "none", chunk |-> 0,
     total_data_size |-> 0, txs_per_block |-> 0, remaining_data |-> 0,
     input_nonce |-> 0, requested |-> << >>, txs |-> 0, build |-> 0]

\* BundleRequest::new() before any bundle is built
NoBundle == [txs |-> << >>, build |-> 0, block |-> 0, simulation_block |-> 0]

(* ------------------------------ state ---------------------------------- *)

VARIABLES
    opts,           \* the parsed command line (Opts)
    checks,         \* the build panics on integer overflow (debug profile)
    pc,             \* position of the run
    result,         \* "running", or how main ended: "ok", "err", "panic"
    error,          \* what ended the run early
    nonce,          \* main's `nonce`, passed on as &mut
    landed,         \* `landed` of submit_bundles / submit_txns
    bundle,         \* `bundle` of submit_bundles
    plan,           \* values of the latest construct_bundle call
    builds,         \* number of construct_bundle calls made
    block_number,   \* `block_number` of the current loop iteration
    attempts,       \* records appended to stress-4844-attempts.json
    submitted,      \* bundles handed to the relay (send_bundle), in order
    head,           \* chain: number of the latest block
    blocks_seen,    \* chain: notifications delivered by the block stream
    stream_ended,   \* chain: the block stream has ended
    chain_nonce,    \* chain: pending transaction count of the account
    transactions,   \* `transactions` of submit_txns
    sign_faults,    \* submit_txns: entries whose get_signed_tx failed
    tx_state,       \* submit_txns: per transaction, how far it got
    next_receipt,   \* submit_txns: index of the receipt loop
    txn_log         \* records appended to stress-4844-mempool-txns.json

vars == <<opts, checks, pc, result, error, nonce, landed, bundle, plan, builds,
          block_number, attempts, submitted, head, blocks_seen, stream_ended,
          chain_nonce, transactions, sign_faults, tx_state, next_receipt,
          txn_log>>

chain_vars == <<head, blocks_seen, stream_ended, chain_nonce>>

bundle_vars == <<landed, bundle, plan, builds, block_number, attempts, submitted>>

mempool_vars == <<transactions, sign_faults, tx_state, next_receipt, txn_log>>

\* clap defaults of the options a mode does not read
DefaultBlocks == 1

DefaultFillPct == 80

DefaultChunkSize == 128

DefaultMempoolTxs == 64

\* Opts, as main reads it
BundleOpts ==
    [blocks : 0..MaxBudget, fill_pct : FillPcts, chunk_size : ChunkSizes,
     mem_pool : {FALSE}, mempool_txs : {DefaultMempoolTxs}]

MempoolOpts ==
    [blocks : {DefaultBlocks}, fill_pct : {DefaultFillPct},
     chunk_size : {DefaultChunkSize}, mem_pool : {TRUE},
     mempool_txs : 0..MaxMempoolTxs]

\* main, up to the branch on use_mempool: the options are parsed and the
\* pending nonce of the account has been read
Init ==
    /\ opts \in BundleOpts \cup MempoolOpts
    /\ checks \in BOOLEAN
    /\ pc = IF opts.mem_pool THEN "submit_txns" ELSE "submit_bundles"
    /\ result = "running"
    /\ error = NoValue
    /\ chain_nonce \in StartNonces
    /\ nonce = chain_nonce
    /\ landed = 0
    /\ bundle = NoBundle
    /\ plan = NoPlan
    /\ builds = 0
    /\ block_number = 0
    /\ attempts = << >>
    /\ submitted = << >>
    /\ head = StartBlock
    /\ blocks_seen = 0
    /\ stream_ended = FALSE
    /\ transactions = << >>
    /\ sign_faults = {}
    /\ tx_state = << >>
    /\ next_receipt = 1
    /\ txn_log = << >>

\* a `?` that returns Err from main, or a panic
Fail(how, what) ==
    /\ pc' = "failed"
    /\ result' = how
    /\ error' = what

(* ------------------------ main.rs: submit_bundles ---------------------- *)

\* mutant of LoopContinues: the loop is left as soon as the budget is met
LoopContinues_Strict(landed_now, blocks_to_land) == landed_now < blocks_to_land

\* while block_sub.next().await.is_some() && landed <= blocks_to_land
LoopContinues(landed_now, blocks_to_land) == landed_now <= blocks_to_land

\* mutant of TargetBlock: future_block_distance is 0, the bundle is aimed at
\* the block that is already mined
TargetBlock_Current(number) == number

\* let target_block = block_number + future_block_distance;
TargetBlock(number) == number + 1

\* bundle.set_block(target_block).set_simulation_block(block_number)
SetBlocks(b, number) ==
    [b EXCEPT !.block = TargetBlock(number), !.simulation_block = number]

\* bundle = construct_bundle(..., *nonce, ...).await?  and what follows it
Build(from_nonce, then) ==
    \E fault \in Faults(TxsPerBlock(TotalDataSize(opts.fill_pct),
                                    ChunkBytes(opts.chunk_size))) :
        LET r == ConstructBundle(opts.fill_pct, from_nonce, opts.chunk_size,
                                 checks, fault)
        IN  /\ builds' = builds + 1
            /\ plan' = [r EXCEPT !.txs = Len(r.txs)] @@ [build |-> builds + 1]
            /\ IF r.status = "ok"
               THEN /\ bundle' = [txs |-> r.txs, build |-> builds + 1,
                                  block |-> 0, simulation_block |-> 0]
                    /\ pc' = then
                    /\ UNCHANGED <<result, error>>
               ELSE /\ Fail(r.status, r.error)
                    /\ UNCHANGED bundle

\* lines 336-347: the bundle built before the loop
InitialBuild ==
    /\ pc = "submit_bundles"
    /\ Build(nonce, "watch_blocks")
    /\ UNCHANGED <<opts, checks, nonce, landed, block_number, attempts,
                   submitted, chain_vars, mempool_vars>>

\* line 352: provider.watch_blocks().await?
WatchBlocks ==
    /\ pc = "watch_blocks"
    /\ \/ pc' = "await_block" /\ UNCHANGED <<result, error>>
       \/ Fail("err", "watch_blocks")
    /\ UNCHANGED <<opts, checks, nonce, bundle_vars, chain_vars, mempool_vars>>

\* line 354: the stream yields a block, then the budget is tested
BlockArrives ==
    /\ pc = "await_block"
    /\ ~stream_ended
    /\ blocks_seen < MaxBlocks
    /\ blocks_seen' = blocks_seen + 1
    /\ head' = head + 1
    /\ pc' = IF LoopContinues(landed, opts.blocks) THEN "fetch_block" ELSE "done"
    /\ UNCHANGED <<opts, checks, result, error, nonce, bundle_vars,
                   stream_ended, chain_nonce, mempool_vars>>

\* mutant of StreamEnds: the end of the stream does not leave the loop, which
\* goes on waiting for a block
StreamEnds_KeepsWaiting ==
    /\ pc = "await_block"
    /\ ~stream_ended
    /\ stream_ended' = TRUE
    /\ UNCHANGED <<opts, checks, pc, result, error, nonce, bundle_vars, head,
                   blocks_seen, chain_nonce, mempool_vars>>

\* line 354: block_sub.next() yields None
StreamEnds ==
    /\ pc = "await_block"
    /\ ~stream_ended
    /\ stream_ended' = TRUE
    /\ pc' = "done"
    /\ UNCHANGED <<opts, checks, result, error, nonce, bundle_vars, head,
                   blocks_seen, chain_nonce, mempool_vars>>

\* lines 355-359: get_block_number().await?, get_block(Latest).await?.expect()
FetchBlock ==
    /\ pc = "fetch_block"
    /\ \/ /\ block_number' = head
          /\ pc' = "send_bundle"
          /\ UNCHANGED <<result, error>>
       \/ Fail("err", "get_block_number") /\ UNCHANGED block_number
       \/ /\ block_number' = head
          /\ \/ Fail("err", "get_block")
             \/ Fail("panic", "could not get latest block")
    /\ UNCHANGED <<opts, checks, nonce, landed, bundle, plan, builds, attempts,
                   submitted, chain_vars, mempool_vars>>

\* lines 365-378: the bundle is aimed at the next block and sent to the relay
SendBundle ==
    /\ pc = "send_bundle"
    /\ bundle' = SetBlocks(bundle, block_number)
    /\ \/ /\ submitted' = Append(submitted,
                                 [build |-> bundle.build,
                                  block |-> bundle'.block,
                                  simulation_block |-> bundle'.simulation_block,
                                  at |-> blocks_seen])
          /\ pc' = "pending_bundle"
          /\ UNCHANGED <<result, error>>
       \/ Fail("err", "send_bundle") /\ UNCHANGED submitted
    /\ UNCHANGED <<opts, checks, nonce, landed, plan, builds, block_number,
                   attempts, chain_vars, mempool_vars>>

\* log_attempt(chunk_size, tip_wei, fill_pct, success, block_no): the record
\* is appended to the file, which the file system is taken to accept
LogAttempt(log, success, block_no) ==
    Append(log, [fill_pct |-> opts.fill_pct, chunk_size |-> opts.chunk_size,
                 success |-> success, block_no |-> block_no])

\* mutant of ResolveBundle: the inclusion future is awaited with `?`, so a
\* bundle that is not included returns the error from submit_bundles
ResolveBundle_Propagates ==
    /\ pc = "pending_bundle"
    /\ \/ /\ landed' = landed + 1
          /\ attempts' = LogAttempt(attempts, TRUE, block_number)
          /\ chain_nonce' = chain_nonce + Len(bundle.txs)
          /\ pc' = "refresh_nonce"
          /\ UNCHANGED <<result, error>>
       \/ /\ Fail("err", "bundle not included")
          /\ UNCHANGED <<landed, chain_nonce, attempts>>
    /\ UNCHANGED <<opts, checks, nonce, bundle, plan, builds,
                   block_number, submitted, head, blocks_seen, stream_ended,
                   mempool_vars>>

\* mutant of ResolveBundle: only the Ok arm calls log_attempt
ResolveBundle_LogsSuccessOnly ==
    /\ pc = "pending_bundle"
    /\ \/ /\ landed' = landed + 1
          /\ attempts' = LogAttempt(attempts, TRUE, block_number)
          /\ chain_nonce' = chain_nonce + Len(bundle.txs)
       \/ UNCHANGED <<landed, chain_nonce, attempts>>
    /\ pc' = "refresh_nonce"
    /\ UNCHANGED <<opts, checks, result, error, nonce, bundle, plan, builds,
                   block_number, submitted, head, blocks_seen, stream_ended,
                   mempool_vars>>

\* lines 379-391: the inclusion future resolves
ResolveBundle ==
    /\ pc = "pending_bundle"
    /\ \/ /\ landed' = landed + 1
          /\ attempts' = LogAttempt(attempts, TRUE, block_number)
          /\ chain_nonce' = chain_nonce + Len(bundle.txs)
       \/ /\ attempts' = LogAttempt(attempts, FALSE, block_number)
          /\ UNCHANGED <<landed, chain_nonce>>
    /\ pc' = "refresh_nonce"
    /\ UNCHANGED <<opts, checks, result, error, nonce, bundle, plan, builds,
                   block_number, submitted, head, blocks_seen, stream_ended,
                   mempool_vars>>

\* mutant of RefreshNonce: the nonce is tracked locally, advanced by the
\* transactions of the bundle just sent, instead of being read from the chain
RefreshNonce_Local ==
    /\ pc = "refresh_nonce"
    /\ nonce' = nonce + Len(bundle.txs)
    /\ pc' = "rebuild"
    /\ UNCHANGED <<result, error>>
    /\ UNCHANGED <<opts, checks, bundle_vars, chain_vars, mempool_vars>>

\* mutant of RefreshNonce: a failed nonce query is swallowed, the loop goes
\* on with the nonce it had
RefreshNonce_Swallows ==
    /\ pc = "refresh_nonce"
    /\ \/ /\ nonce' = chain_nonce
          /\ UNCHANGED error
       \/ /\ error' = "get_transaction_count"
          /\ UNCHANGED nonce
    /\ pc' = "rebuild"
    /\ UNCHANGED result
    /\ UNCHANGED <<opts, checks, bundle_vars, chain_vars, mempool_vars>>

\* lines 392-394: *nonce = get_transaction_count(address, Pending).await?
RefreshNonce ==
    /\ pc = "refresh_nonce"
    /\ \/ /\ nonce' = chain_nonce
          /\ pc' = "rebuild"
          /\ UNCHANGED <<result, error>>
       \/ Fail("err", "get_transaction_count") /\ UNCHANGED nonce
    /\ UNCHANGED <<opts, checks, bundle_vars, chain_vars, mempool_vars>>

\* mutant of Rebuild: a bundle that was not included is kept and sent again
Rebuild_KeepsRejected ==
    /\ pc = "rebuild"
    /\ IF attempts[Len(attempts)].success
       THEN Build(nonce, "await_block")
       ELSE /\ pc' = "await_block"
            /\ UNCHANGED <<bundle, plan, builds, result, error>>
    /\ UNCHANGED <<opts, checks, nonce, landed, block_number, attempts,
                   submitted, chain_vars, mempool_vars>>

\* mutant of Rebuild: once the counter is past the budget no further bundle is
\* built, the loop goes back to its wait with the bundle it has
Rebuild_SkipsPastBudget ==
    /\ pc = "rebuild"
    /\ IF landed > opts.blocks
       THEN /\ pc' = "await_block"
            /\ UNCHANGED <<bundle, plan, builds, result, error>>
       ELSE Build(nonce, "await_block")
    /\ UNCHANGED <<opts, checks, nonce, landed, block_number, attempts,
                   submitted, chain_vars, mempool_vars>>

\* lines 397-408: the bundle for the next block
Rebuild ==
    /\ pc = "rebuild"
    /\ Build(nonce, "await_block")
    /\ UNCHANGED <<opts, checks, nonce, landed, block_number, attempts,
                   submitted, chain_vars, mempool_vars>>

\* lines 411-413: the closing log line queries the block number, then Ok(())
Done ==
    /\ pc = "done"
    /\ \/ pc' = "returned" /\ result' = "ok" /\ UNCHANGED error
       \/ Fail("err", "get_block_number")
    /\ UNCHANGED <<opts, checks, nonce, bundle_vars, chain_vars, mempool_vars>>

(* -------------------------- main.rs: submit_txns ----------------------- *)

\* bundle_builder::calldata_kb_to_bytes(chunk_size): the payload bytes of one
\* transaction, the chunk size in bytes less the fixed overhead
CalldataKbToBytes(chunk_size) == chunk_size * KB - TRIM_BYTES

\* the end of the range 0..mempool_txs - 1
SignRangeEnd(mempool_txs) == WrappingSub(mempool_txs, 1)

\* the loop index i: one iteration per transaction pushed or failed
SignIndex == Len(transactions) + Cardinality(sign_faults)

\* i is still inside 0..end (a wrapped-around end is never reached)
InSignRange(i, end) == Wrapped(end) \/ i < end

\* let new_nonce = *nonce + U256::from(i);
NewNonce(start, i) == start + i

\* mutant of OnSignError: the failed entry is skipped and the loop goes on
OnSignError_Skip(kind) == UNCHANGED <<pc, result, error>>

\* get_signed_tx(...).await? in the signing loop: the error leaves submit_txns
OnSignError(kind) == Fail("err", kind)

\* lines 256-263: the gas price is read and the range of the loop evaluated
StartTxns ==
    /\ pc = "submit_txns"
    /\ \/ Fail("err", "gas_price")
       \/ IF SubOverflows(opts.mempool_txs, 1) /\ checks
          THEN Fail("panic", "overflow")
          ELSE pc' = "signing" /\ UNCHANGED <<result, error>>
    /\ UNCHANGED <<opts, checks, nonce, bundle_vars, chain_vars, mempool_vars>>

\* lines 263-276: one iteration of the signing loop
SignTxn ==
    /\ pc = "signing"
    /\ InSignRange(SignIndex, SignRangeEnd(opts.mempool_txs))
    /\ Len(transactions) < MaxMempoolTxs
    /\ \/ /\ transactions' =
                Append(transactions,
                       [nonce |-> NewNonce(nonce, SignIndex),
                        data_size |-> CalldataKbToBytes(opts.chunk_size)])
          /\ UNCHANGED <<pc, result, error, sign_faults>>
       \/ \E kind \in {"estimate", "sign"} :
             /\ sign_faults' = sign_faults \cup {[i |-> SignIndex, kind |-> kind]}
             /\ OnSignError(kind)
             /\ UNCHANGED transactions
    /\ UNCHANGED <<opts, checks, nonce, bundle_vars, chain_vars, tx_state,
                   next_receipt, txn_log>>

\* lines 277-284: a send_raw_transaction future is made for each transaction;
\* nothing is sent before the futures are polled
MakeResponses ==
    /\ pc = "signing"
    /\ ~InSignRange(SignIndex, SignRangeEnd(opts.mempool_txs))
    /\ tx_state' = [k \in 1..Len(transactions) |-> "created"]
    /\ pc' = "broadcasting"
    /\ UNCHANGED <<opts, checks, result, error, nonce, bundle_vars, chain_vars,
                   transactions, sign_faults, next_receipt, txn_log>>

\* line 285: try_join_all(responses) polls the sends concurrently; the first
\* Err ends the join and `?` returns it, dropping the sends still in flight
Broadcast(k) ==
    /\ pc = "broadcasting"
    /\ tx_state[k] = "created"
    /\ \/ /\ tx_state' = [tx_state EXCEPT ![k] = "pending"]
          /\ UNCHANGED <<pc, result, error>>
       \/ /\ tx_state' = [tx_state EXCEPT ![k] = "send_failed"]
          /\ Fail("err", "send_raw_transaction")
    /\ UNCHANGED <<opts, checks, nonce, bundle_vars, chain_vars, transactions,
                   sign_faults, next_receipt, txn_log>>

\* line 285: every send returned Ok, the join yields the pending transactions
JoinBroadcasts ==
    /\ pc = "broadcasting"
    /\ \A k \in DOMAIN tx_state : tx_state[k] = "pending"
    /\ pc' = "awaiting"
    /\ UNCHANGED <<opts, checks, result, error, nonce, bundle_vars, chain_vars,
                   mempool_vars>>

\* lines 286-287: try_join_all(pending_txs): a pending transaction resolves to
\* Some(receipt), to None (dropped from the pool), or to an Err that ends the
\* join
ResolveReceipt(k) ==
    /\ pc = "awaiting"
    /\ tx_state[k] = "pending"
    /\ \/ /\ \E r \in {"receipt", "dropped"} :
                tx_state' = [tx_state EXCEPT ![k] = r]
          /\ UNCHANGED <<pc, result, error>>
       \/ /\ tx_state' = [tx_state EXCEPT ![k] = "wait_failed"]
          /\ Fail("err", "pending_transaction")
    /\ UNCHANGED <<opts, checks, nonce, bundle_vars, chain_vars, transactions,
                   sign_faults, next_receipt, txn_log>>

\* lines 287-289: every wait returned Ok
JoinReceipts ==
    /\ pc = "awaiting"
    /\ \A k \in DOMAIN tx_state : tx_state[k] \in {"receipt", "dropped"}
    /\ pc' = "logging"
    /\ UNCHANGED <<opts, checks, result, error, nonce, bundle_vars, chain_vars,
                   mempool_vars>>

\* mutant of LogReceipt: the receipt loop stops at the first transaction that
\* has no receipt
LogReceipt_StopsAtDropped ==
    /\ pc = "logging"
    /\ next_receipt <= Len(tx_state)
    /\ IF tx_state[next_receipt] = "receipt"
       THEN /\ landed' = landed + 1
            /\ txn_log' = Append(txn_log,
                                 [nonce |-> transactions[next_receipt].nonce,
                                  landed |-> landed + 1])
            /\ next_receipt' = next_receipt + 1
       ELSE /\ next_receipt' = Len(tx_state) + 1
            /\ UNCHANGED <<landed, txn_log>>
    /\ UNCHANGED <<opts, checks, pc, result, error, nonce, bundle, plan, builds,
                   block_number, attempts, submitted, chain_vars, transactions,
                   sign_faults, tx_state>>

\* lines 291-303: one iteration of the receipt loop
LogReceipt ==
    /\ pc = "logging"
    /\ next_receipt <= Len(tx_state)
    /\ IF tx_state[next_receipt] = "receipt"
       THEN /\ landed' = landed + 1
            /\ txn_log' = Append(txn_log,
                                 [nonce |-> transactions[next_receipt].nonce,
                                  landed |-> landed + 1])
       ELSE UNCHANGED <<landed, txn_log>>
    /\ next_receipt' = next_receipt + 1
    /\ UNCHANGED <<opts, checks, pc, result, error, nonce, bundle, plan, builds,
                   block_number, attempts, submitted, chain_vars, transactions,
                   sign_faults, tx_state>>

\* line 305: Ok(())
ReturnTxns ==
    /\ pc = "logging"
    /\ next_receipt > Len(tx_state)
    /\ pc' = "returned"
    /\ result' = "ok"
    /\ UNCHANGED <<opts, checks, error, nonce, bundle_vars, chain_vars,
                   mempool_vars>>

Next ==
    \/ InitialBuild
    \/ WatchBlocks
    \/ BlockArrives
    \/ StreamEnds
    \/ FetchBlock
    \/ SendBundle
    \/ ResolveBundle
    \/ RefreshNonce
    \/ Rebuild
    \/ Done
    \/ StartTxns
    \/ SignTxn
    \/ MakeResponses
    \/ \E k \in DOMAIN tx_state : Broadcast(k)
    \/ JoinBroadcasts
    \/ \E k \in DOMAIN tx_state : ResolveReceipt(k)
    \/ JoinReceipts
    \/ LogReceipt
    \/ ReturnTxns

Spec == Init /\ [][Next]_vars

\* the steps submit_bundles takes by itself: the runtime resumes the task
\* whenever the call it awaits has returned
LoopStep ==
    \/ InitialBuild
    \/ WatchBlocks
    \/ FetchBlock
    \/ SendBundle
    \/ RefreshNonce
    \/ Rebuild
    \/ Done

\* the block stream, which delivers the next block or ends
StreamStep == BlockArrives \/ StreamEnds

\* Spec, with the task always resumed, every inclusion future resolved by the
\* relay and the block stream never silent for ever
FairSpec ==
    /\ Spec
    /\ WF_vars(LoopStep)
    /\ WF_vars(ResolveBundle)
    /\ WF_vars(StreamStep)

(* ------------------------------ claims --------------------------------- *)

\* number of success records among the first n attempt records
Successes(log, n) == Cardinality({i \in 1..n : log[i].success})

\* the chunk size leaves room for the overhead: chunk_size * KB - TRIM_BYTES > 0
ValidChunk == opts.chunk_size * KB > TRIM_BYTES

\* a construct_bundle call has got to the remainder transaction
PastLoop == plan.stage \in {"remaining_data", "remainder", "returned"}

\* C1: with a budget of B >= 1 landed blocks no bundle is submitted after the
\* B-th successful inclusion: every submission is made while fewer than B of
\* the attempts before it succeeded.
C1_NoSubmissionAfterBudget ==
    opts.blocks >= 1 =>
        \A j \in 1..Len(submitted) : Successes(attempts, j - 1) < opts.blocks

\* C2: for a valid chunk size the remainder payload size is never negative:
\* computing it neither overflows (panics) nor wraps around, so no
\* wrapped-around payload size is requested of the transaction factory.
C2_RemainderNeverNegative ==
    (ValidChunk /\ PastLoop) =>
        /\ plan.status # "panic"
        /\ ~Wrapped(plan.remaining_data)
        /\ \A i \in 1..Len(plan.requested) : ~Wrapped(plan.requested[i])

\* C3: once the signing loop of submit_txns is over, exactly N = mempool_txs
\* transactions are built, with nonces start, start+1, ..., start+N-1.
C3_BuildsExactlyN ==
    (opts.mem_pool /\ pc \in {"broadcasting", "awaiting", "logging", "returned"}) =>
        /\ Len(transactions) = opts.mempool_txs
        /\ \A k \in 1..Len(transactions) :
               transactions[k].nonce = chain_nonce + (k - 1)

\* C4: a transaction whose broadcast or receipt wait failed does not abort
\* the run: the run is never ended with an error by such a failure.
C4_FailureDoesNotAbort ==
    (\E k \in DOMAIN tx_state : tx_state[k] \in {"send_failed", "wait_failed"}) =>
        result # "err"

\* C5: a gas-estimation failure while a plan is assembled ends the run with
\* an error, and nothing of that plan was sent: no submitted bundle comes from
\* the failed construct_bundle call, and no transaction of submit_txns has
\* been broadcast.
C5_EstimationFailureSendsNothing ==
    /\ (plan.status = "err" /\ plan.error = "estimate") =>
           /\ result = "err"
           /\ \A j \in 1..Len(submitted) : submitted[j].build # plan.build
    /\ (\E f \in sign_faults : f.kind = "estimate") =>
           /\ result = "err"
           /\ \A k \in DOMAIN tx_state : tx_state[k] = "created"

\* C5 witness: estimation failed for a later entry of a plan of submit_txns,
\* after earlier entries of the same plan had been signed.
C5_Witness ==
    /\ \E f \in sign_faults : f.kind = "estimate" /\ f.i >= 1
    /\ Len(transactions) >= 1
    /\ pc = "failed"

\* C6: for a valid chunk size the payload sizes requested for a plan sum to
\* at most total_bytes: full_chunks * chunk_bytes + remainder <= total_bytes,
\* the remainder being a genuine (not wrapped-around) size.
C6_PlanFitsTotal ==
    (ValidChunk /\ plan.stage \in {"remainder", "returned"}) =>
        /\ ~Wrapped(plan.remaining_data)
        /\ plan.txs_per_block * plan.chunk + plan.remaining_data
               <= (opts.fill_pct * 2 * 1024 * 1024) \div 100

\* C7: the nonces of a built bundle, in bundle order, are input_nonce,
\* input_nonce+1, ..., input_nonce+full_chunks: full_chunks+1 of them, each
\* used once, the remainder transaction carrying the last.
C7_ContiguousNonces ==
    plan.status = "ok" =>
        /\ bundle.build = plan.build
        /\ Len(bundle.txs) = plan.txs_per_block + 1
        /\ \A i \in 1..Len(bundle.txs) :
               bundle.txs[i].nonce = plan.input_nonce + (i - 1)
        /\ bundle.txs[Len(bundle.txs)].data_size = plan.remaining_data
        /\ \A i \in 1..(Len(bundle.txs) - 1) :
               bundle.txs[i + 1].nonce = bundle.txs[i].nonce + 1

\* C7 witness: a bundle of several transactions rebuilt inside the loop from
\* a nonce the chain moved forward.
C7_Witness ==
    /\ plan.status = "ok"
    /\ builds >= 2
    /\ Len(bundle.txs) >= 3
    /\ plan.input_nonce > 5

\* C8: a built bundle is never empty, and for a valid chunk size it holds
\* exactly total_bytes div chunk_bytes transactions of chunk_bytes followed by
\* one remainder transaction; for fill_pct = 100 and chunk_size = 128 that is
\* 2097152 div 130772 = 16 full transactions.
C8_PlanShape ==
    plan.status = "ok" =>
        /\ Len(bundle.txs) >= 1
        /\ ValidChunk =>
               LET chunk_bytes == opts.chunk_size * 1024 - 300
                   total_bytes == (opts.fill_pct * 2 * 1024 * 1024) \div 100
                   full_chunks == total_bytes \div chunk_bytes
               IN  /\ Len(bundle.txs) = full_chunks + 1
                   /\ \A i \in 1..full_chunks :
                          bundle.txs[i].data_size = chunk_bytes
                   /\ (opts.fill_pct = 100 /\ opts.chunk_size = 128) =>
                          Len(bundle.txs) - 1 = 2097152 \div 130772

\* C8 witness: the bundle built for fill_pct = 100 and chunk_size = 128.
C8_Witness ==
    /\ plan.status = "ok"
    /\ opts.fill_pct = 100
    /\ opts.chunk_size = 128
    /\ Len(bundle.txs) = 17

\* C9: when chunk_size * 1024 - OVERHEAD is not positive the planner stops at
\* the chunk-size computation: it never queries the gas price, signs or
\* submits.
C9_InvalidChunkStopsPlanner ==
    ~ValidChunk =>
        /\ plan.stage \in {"none", "chunk"}
        /\ Len(submitted) = 0

\* C10: the loop goes to Done only from its wait for a block, and only when
\* the stream ends or a block arrives while landed > budget; when a block
\* arrives and landed <= budget it goes on into the submit cycle.
C10_DoneOnlyOverBudgetOrStreamEnd ==
    [][ /\ (pc' = "done" /\ pc # "done") =>
               /\ pc = "await_block"
               /\ \/ stream_ended' /\ ~stream_ended
                  \/ blocks_seen' = blocks_seen + 1 /\ landed > opts.blocks
        /\ (pc = "await_block" /\ blocks_seen' = blocks_seen + 1
                /\ landed <= opts.blocks) => pc' = "fetch_block" ]_vars

\* C10 witness: Done reached on a block notification with the counter past
\* the budget, the stream still open.
C10_Witness ==
    /\ pc = "done"
    /\ ~stream_ended
    /\ landed > opts.blocks
    /\ opts.blocks >= 1

\* the last attempt record is a failure record
LastAttemptFailed ==
    Len(attempts) >= 1 /\ ~attempts[Len(attempts)].success

\* C11: a bundle that is not included never ends the loop and is no error:
\* the step that resolves it appends a failure record and goes on to the nonce
\* refresh with the run still running, and the next block notification after
\* a failed attempt leads into the submit cycle again, however many attempts
\* failed before.
C11_RejectionIsRetried ==
    [][ /\ (pc = "pending_bundle" /\ landed' = landed) =>
               /\ pc' = "refresh_nonce"
               /\ result' = "running"
               /\ Len(attempts') = Len(attempts) + 1
               /\ ~attempts'[Len(attempts')].success
        /\ (pc = "await_block" /\ blocks_seen' = blocks_seen + 1
                /\ LastAttemptFailed) => pc' = "fetch_block" ]_vars

\* C11 witness: a third bundle is submitted after two consecutive failures.
C11_Witness ==
    /\ pc = "pending_bundle"
    /\ Len(submitted) = 3
    /\ Len(attempts) = 2
    /\ ~attempts[1].success
    /\ ~attempts[2].success

\* C12: the loop's nonce changes only in the step that follows an attempt,
\* where it becomes the pending transaction count of the chain, after a
\* success and after a failure alike; a bundle is built from exactly the
\* loop's nonce, and building leaves that nonce as it was.
C12_NonceOnlyFromChain ==
    [][ /\ (nonce' # nonce) => (pc = "refresh_nonce" /\ nonce' = chain_nonce)
        /\ (pc = "refresh_nonce" /\ pc' = "rebuild") => nonce' = chain_nonce
        /\ (builds' = builds + 1) =>
               (plan'.input_nonce = nonce /\ nonce' = nonce) ]_vars

\* C12 witness: a bundle rebuilt after a failed attempt, from a nonce an
\* earlier success had moved forward on the chain.
C12_Witness ==
    /\ pc = "await_block"
    /\ builds >= 3
    /\ LastAttemptFailed
    /\ landed >= 1
    /\ plan.status = "ok"
    /\ plan.input_nonce = chain_nonce
    /\ nonce > 5

\* C13: every bundle handed to the relay targets block current + 1 and is
\* simulated on block current, current being the chain's block number read
\* after the notification of that cycle (the head after that many
\* notifications) and logged with the attempt.
C13_TargetIsNextBlock ==
    \A j \in 1..Len(submitted) :
        /\ submitted[j].block = submitted[j].simulation_block + 1
        /\ submitted[j].simulation_block = StartBlock + submitted[j].at
        /\ j <= Len(attempts) =>
               attempts[j].block_no = submitted[j].simulation_block
        /\ (j = Len(submitted) /\ pc = "pending_bundle") =>
               (submitted[j].simulation_block = block_number
                   /\ block_number = head)

\* C13 witness: a second bundle in flight, aimed one block past the first.
C13_Witness ==
    /\ pc = "pending_bundle"
    /\ Len(submitted) = 2
    /\ submitted[2].block = submitted[1].block + 1

\* C14: in the landing loop the attempt log holds one record per submission
\* whose inclusion outcome has resolved, the landed counter is the number of
\* success records, the log only grows at its end, and the record written
\* when an outcome resolves says success exactly when the bundle was included
\* (the chain's transaction count moved).
C14_AttemptLog ==
    /\ [](~opts.mem_pool =>
            /\ Len(attempts) =
                   Len(submitted) - (IF pc = "pending_bundle" THEN 1 ELSE 0)
            /\ landed = Successes(attempts, Len(attempts)))
    /\ [][ /\ Len(attempts') >= Len(attempts)
           /\ SubSeq(attempts', 1, Len(attempts)) = attempts
           /\ (pc = "pending_bundle" /\ pc' # "pending_bundle") =>
                  /\ Len(attempts') = Len(attempts) + 1
                  /\ attempts'[Len(attempts')].success
                         = (chain_nonce' # chain_nonce) ]_vars

\* C14 witness: two successes and a failure are logged while a fourth
\* submission is unresolved.
C14_Witness ==
    /\ pc = "pending_bundle"
    /\ Len(submitted) = 4
    /\ Len(attempts) = 3
    /\ landed = 2
    /\ ~attempts[2].success

\* errors of the calls a cycle makes before and after its submission
SetupErrors ==
    {"get_block_number", "get_block", "get_transaction_count", "gas_price",
     "estimate", "sign"}

\* C15: in the landing loop a failed set-up call (block number, block, nonce,
\* gas price, estimation, signing) ends the run with an error and nothing is
\* submitted after it, while the resolution of a submission, included or not,
\* never ends the run: an error return is never due to a bundle that was not
\* included.
C15_SetupFatalOutcomeRetried ==
    /\ [](~opts.mem_pool =>
            /\ (error \in SetupErrors) => (result = "err" /\ pc = "failed")
            /\ (result = "err") =>
                   error \in SetupErrors \cup {"watch_blocks", "send_bundle"})
    /\ [][ ~opts.mem_pool =>
            /\ (error \in SetupErrors) => submitted' = submitted
            /\ (pc = "pending_bundle") =>
                   (result' = "running" /\ error' = NoValue) ]_vars

\* C15 witness: the nonce query fails right after a bundle that was not
\* included had been logged and passed over.
C15_Witness ==
    /\ pc = "failed"
    /\ error = "get_transaction_count"
    /\ LastAttemptFailed
    /\ Len(submitted) >= 2

\* the transactions among the first n that resolved to a receipt
Receipts(n) == {k \in 1..n : tx_state[k] = "receipt"}

\* C16: in submit_txns, once every wait has resolved, the receipt loop logs
\* exactly the transactions that resolved to a receipt: after n iterations the
\* log holds one record for each receipt among the first n transactions and
\* none for a dropped one, and the loop runs over all transactions.
C16_DroppedOnlyAbsent ==
    (opts.mem_pool /\ pc \in {"logging", "returned"}) =>
        /\ Len(txn_log) = Cardinality(Receipts(next_receipt - 1))
        /\ landed = Len(txn_log)
        /\ \A k \in Receipts(next_receipt - 1) :
               \E i \in 1..Len(txn_log) :
                   txn_log[i].nonce = transactions[k].nonce
        /\ pc = "returned" => next_receipt = Len(tx_state) + 1

\* C16 witness: a dropped transaction between two that have receipts; both
\* receipts are logged.
C16_Witness ==
    /\ pc = "returned"
    /\ Len(tx_state) >= 3
    /\ tx_state[1] = "receipt"
    /\ tx_state[2] = "dropped"
    /\ tx_state[3] = "receipt"
    /\ Len(txn_log) = 2

\* the larger of two integers
Max(a, b) == IF a >= b THEN a ELSE b

\* C18: for a valid chunk size the remainder size that construct_bundle
\* computes is max(0, total_bytes - full_chunks * chunk_bytes - 300), the
\* overhead of 300 bytes being subtracted once.
C18_RemainderSubtractsOverheadOnce ==
    (ValidChunk /\ plan.stage \in {"remainder", "returned"}) =>
        LET chunk_bytes == opts.chunk_size * 1024 - 300
            total_bytes == (opts.fill_pct * 2 * 1024 * 1024) \div 100
            full_chunks == total_bytes \div chunk_bytes
        IN  plan.remaining_data =
                Max(0, total_bytes - full_chunks * chunk_bytes - 300)

\* C19: a bundle is submitted at most once: the submissions come from
\* different construct_bundle calls, in the order of the calls, and the bundle
\* the loop holds when it waits for a block or is about to submit is one that
\* was never submitted.
C19_BundleSingleUse ==
    /\ \A i, j \in 1..Len(submitted) :
           i < j => submitted[i].build < submitted[j].build
    /\ pc \in {"await_block", "fetch_block", "send_bundle"} =>
           \A j \in 1..Len(submitted) : submitted[j].build # bundle.build

\* C19 witness: after two rejected bundles the loop is about to submit a
\* third one, built from the same nonce as the two before it.
C19_Witness ==
    /\ pc = "send_bundle"
    /\ Len(submitted) = 2
    /\ landed = 0
    /\ LastAttemptFailed
    /\ plan.status = "ok"
    /\ plan.input_nonce = chain_nonce

HeldBundleUnsubmitted ==
    \A j \in 1..Len(submitted) : submitted[j].build # bundle.build

\* C21: bundles are built one ahead of their submission: at the head of the
\* loop, between a block notification and the submission, and at Done, the
\* construct_bundle calls made are the submissions plus one and the bundle held
\* is the last one built and has not been submitted; between a submission and
\* the rebuild the two counts are equal. The landing that takes the counter
\* past the budget does not leave the loop: the nonce is still re-queried from
\* the chain and one more bundle built, whose failure ends the run with an
\* error, and Done is reached with the stream open only by one more block
\* notification, with the bundle built last never submitted.
C21_BuiltOneAhead ==
    /\ []((~opts.mem_pool) =>
            /\ (pc \in {"await_block", "fetch_block", "send_bundle", "done",
                         "returned"}) =>
                   (/\ builds = Len(submitted) + 1
                    /\ bundle.build = builds
                    /\ HeldBundleUnsubmitted)
            /\ (pc \in {"pending_bundle", "refresh_nonce", "rebuild"}) =>
                   builds = Len(submitted))
    /\ [][ /\ (pc = "pending_bundle" /\ landed' > opts.blocks) =>
                  pc' = "refresh_nonce"
           /\ (pc = "refresh_nonce" /\ landed > opts.blocks /\ pc' # "failed") =>
                  pc' = "rebuild" /\ nonce' = chain_nonce
           /\ (pc = "rebuild" /\ landed > opts.blocks) =>
                  /\ builds' = builds + 1
                  /\ IF plan'.status = "ok"
                     THEN pc' = "await_block" /\ bundle'.build = builds'
                     ELSE pc' = "failed" /\ result' \in {"err", "panic"}
           /\ (pc # "done" /\ pc' = "done" /\ ~stream_ended') =>
                  /\ landed > opts.blocks
                  /\ blocks_seen' = blocks_seen + 1
                  /\ blocks_seen' = Len(submitted) + 1 ]_vars

\* C21 witness: Done reached with the stream open after the landing that took
\* the counter past a budget of at least one: one bundle more than was
\* submitted has been built, one block notification more than submissions
\* consumed, and the bundle held was never sent.
C21_Witness ==
    /\ pc = "done"
    /\ ValidChunk
    /\ ~stream_ended
    /\ opts.blocks >= 1
    /\ landed = opts.blocks + 1
    /\ builds = Len(submitted) + 1
    /\ blocks_seen = Len(submitted) + 1
    /\ bundle.build = builds
    /\ HeldBundleUnsubmitted

\* the rebuild that follows the landing past the budget has failed: the run
\* ends with an error although the budget was met
FinalRebuildFailed ==
    /\ pc = "failed"
    /\ landed = opts.blocks + 1
    /\ Len(attempts) = Len(submitted)
    /\ builds = Len(submitted) + 1
    /\ plan.build = builds
    /\ plan.status # "ok"

====
